---- MODULE Spec2Model ----
(***************************************************************************)
(* Model of lib9/notify.c: Plan 9 notes on top of POSIX signals.           *)
(*                                                                         *)
(* The program state of notify.c is small (notifyf, the static init flag,  *)
(* the one jump buffer, the provider slot); the live state, as the source  *)
(* says, "lives in the kernel": the signal mask, the handler slots and the *)
(* pending set.  Both are modelled, together with the position of every    *)
(* signotify frame that is on a thread's stack.                            *)
(***************************************************************************)
EXTENDS Integers, Sequences, FiniteSets, TLC

(***************************************************************************)
(* Signal numbers.  The numbering is the 4.4BSD one, which gives every     *)
(* signal named in notify.c a number of its own; only distinctness and     *)
(* "not zero" matter to the code.                                          *)
(***************************************************************************)
SIGHUP == 1
SIGINT == 2
SIGQUIT == 3
SIGILL == 4
SIGTRAP == 5
SIGABRT == 6
SIGEMT == 7
SIGFPE == 8
SIGBUS == 10
SIGSEGV == 11
SIGSYS == 12
SIGPIPE == 13
SIGALRM == 14
SIGTERM == 15
SIGTSTP == 18
SIGCHLD == 20
SIGTTIN == 21
SIGTTOU == 22
SIGXCPU == 24
SIGXFSZ == 25
SIGVTALRM == 26
SIGWINCH == 28
SIGINFO == 29
SIGUSR1 == 30
SIGUSR2 == 31

\* Signals that exist only where <signal.h> defines them (#ifdef in sigs[]).
OptionalSignals == {SIGEMT, SIGINFO}

\* Every signal of the model: the rows of sigs[] and the two signals the
\* source leaves out on purpose (SIGABRT, SIGSEGV).
AllSignals ==
    {SIGHUP, SIGINT, SIGQUIT, SIGILL, SIGTRAP, SIGABRT, SIGEMT, SIGFPE, SIGBUS,
     SIGSEGV, SIGSYS, SIGPIPE, SIGALRM, SIGTERM, SIGTSTP, SIGCHLD, SIGTTIN,
     SIGTTOU, SIGXCPU, SIGXFSZ, SIGVTALRM, SIGWINCH, SIGINFO, SIGUSR1, SIGUSR2}

Threads == {"main", "aux"}
\* The user's handler functions: 0 is nil, 1..NHandlers are functions.
NHandlers == 2
Handlers == 0..NHandlers
NoteVals == {"NCONT", "NDFLT", "NSAVE"}

VARIABLES
    build,      \* the optional signals this build's <signal.h> defines
    subject,    \* the note this run is about
    threads,    \* the threads that exist
    notejmpbuf, \* the provider slot _notejmpbuf
    jmp,        \* jump buffers: what each one holds a snapshot of
    notifyf,    \* the Plan 9 handler
    init,       \* notify's static int init
    sigmask,    \* kernel: each thread's blocked set
    action,     \* kernel: each signal's sigaction slot
    pending,    \* kernel: generated, not yet delivered
    stack,      \* each thread's signotify frames, innermost first
    status,     \* the process: running, exited(code), signaled(sig), stopped(sig)
    fired,      \* signals whose foreign (pre-installed) handler has run
    dis,        \* watched notes disabled and not enabled since
    disq,       \* ... and neither attached nor initialized since
    det,        \* watched notes detached and not attached since
    reg         \* the handler last passed to notify; whether notify was called again;
                \* the watched slots noteinit found held by another component

kvars == <<sigmask, action, pending>>
pvars == <<notifyf, init, jmp, notejmpbuf>>
gvars == <<dis, disq, det, reg>>
cvars == <<build, subject, threads>>
vars == <<build, subject, threads, notejmpbuf, jmp, notifyf, init, sigmask, action,
          pending, stack, status, fired, dis, disq, det, reg>>

----------------------------------------------------------------------------
(***************************************************************************)
(* The note table.                                                         *)
(***************************************************************************)
Row(s, r, e, n) == [sig |-> s, restart |-> r, enabled |-> e, notified |-> n]

\* sigs[] with the #ifdef rows present.
sigsAll ==
    << Row(SIGHUP, 0, 1, 1),
       Row(SIGINT, 0, 1, 1),
       Row(SIGQUIT, 0, 1, 1),
       Row(SIGILL, 0, 1, 1),
       Row(SIGTRAP, 0, 1, 1),
       Row(SIGEMT, 0, 1, 1),
       Row(SIGFPE, 0, 1, 1),
       Row(SIGBUS, 0, 1, 1),
       Row(SIGCHLD, 1, 0, 1),
       Row(SIGSYS, 0, 1, 1),
       Row(SIGPIPE, 0, 0, 1),
       Row(SIGALRM, 0, 1, 1),
       Row(SIGTERM, 0, 1, 1),
       Row(SIGTSTP, 1, 0, 1),
       Row(SIGTTIN, 1, 0, 1),
       Row(SIGTTOU, 1, 0, 1),
       Row(SIGXCPU, 0, 1, 1),
       Row(SIGXFSZ, 0, 1, 1),
       Row(SIGVTALRM, 0, 1, 1),
       Row(SIGUSR1, 0, 1, 1),
       Row(SIGUSR2, 0, 1, 1),
       Row(SIGWINCH, 1, 0, 1),
       Row(SIGINFO, 1, 1, 1) >>

\* The builds: a <signal.h> with neither optional signal, and one with both.
Builds == {{}, OptionalSignals}

\* sigs[] as each build compiles it.
sigsOn ==
    [b \in Builds |->
        SelectSeq(sigsAll, LAMBDA r : r.sig \notin OptionalSignals \/ r.sig \in b)]

sigs == sigsOn[build]

\* findsig's loop over a table: the index of the first row for s, 0 for nil.
findsigIn(table, s) ==
    IF \E i \in 1..Len(table) : table[i].sig = s
    THEN CHOOSE i \in 1..Len(table) :
            table[i].sig = s /\ \A k \in 1..(i - 1) : table[k].sig # s
    ELSE 0

findsigOn == [b \in Builds |-> [s \in AllSignals \cup {0} |-> findsigIn(sigsOn[b], s)]]

findsig(s) == findsigOn[build][s]

----------------------------------------------------------------------------
(***************************************************************************)
(* The signal-name table (_p9sigstr, _p9strsig).                           *)
(***************************************************************************)
Tab(s, n) == [sig |-> s, str |-> n]

tabAll ==
    << Tab(SIGHUP, "hangup"),
       Tab(SIGINT, "interrupt"),
       Tab(SIGQUIT, "quit"),
       Tab(SIGILL, "sys: illegal instruction"),
       Tab(SIGTRAP, "sys: breakpoint"),
       Tab(SIGABRT, "sys: abort"),
       Tab(SIGEMT, "sys: emulate instruction executed"),
       Tab(SIGFPE, "sys: fp: trap"),
       Tab(SIGBUS, "sys: bus error"),
       Tab(SIGSEGV, "sys: segmentation violation"),
       Tab(SIGSYS, "sys: bad system call"),
       Tab(SIGALRM, "alarm"),
       Tab(SIGTERM, "kill"),
       Tab(SIGTSTP, "sys: tstp"),
       Tab(SIGCHLD, "sys: child"),
       Tab(SIGTTIN, "sys: ttin"),
       Tab(SIGTTOU, "sys: ttou"),
       Tab(SIGXCPU, "sys: cpu time limit exceeded"),
       Tab(SIGXFSZ, "sys: file size limit exceeded"),
       Tab(SIGVTALRM, "sys: virtual time alarm"),
       Tab(SIGWINCH, "sys: window size change"),
       Tab(SIGINFO, "sys: status request"),
       Tab(SIGUSR1, "sys: usr1"),
       Tab(SIGUSR2, "sys: usr2"),
       Tab(SIGPIPE, "sys: write on closed pipe") >>

\* The names a caller may pass: every name of the table on some build, and
\* one that no build knows.
NoteNames == {tabAll[i].str : i \in 1..Len(tabAll)} \cup {"bogus"}

tabOn ==
    [b \in Builds |->
        SelectSeq(tabAll, LAMBDA r : r.sig \notin OptionalSignals \/ r.sig \in b)]

\* _p9sigstr's loop: the name of a signal number.
sigstrIn(table, sig) ==
    IF \E i \in 1..Len(table) : table[i].sig = sig
    THEN table[CHOOSE i \in 1..Len(table) :
                  table[i].sig = sig /\ \A k \in 1..(i - 1) : table[k].sig # sig].str
    ELSE "sys: signal " \o ToString(sig)

\* _p9strsig's loop: the signal number of a name, 0 for a name the table lacks.
strsigIn(table, msg) ==
    IF \E i \in 1..Len(table) : table[i].str = msg
    THEN table[CHOOSE i \in 1..Len(table) :
                  table[i].str = msg /\ \A k \in 1..(i - 1) : table[k].str # msg].sig
    ELSE 0

sigstrOn == [b \in Builds |-> [sig \in AllSignals |-> sigstrIn(tabOn[b], sig)]]
strsigOn == [b \in Builds |-> [msg \in NoteNames |-> strsigIn(tabOn[b], msg)]]

\* nameOf
p9sigstr(sig) == sigstrOn[build][sig]

\* signumOf
p9strsig(msg) == strsigOn[build][msg]

\* The second note every run uses beside its subject.
OtherNote == "interrupt"

\* The notes a run can be about: one for every kind of row of sigs[] and
\* every default action (terminate, discard, stop), the two optional
\* signals, a signal the table leaves out, and a name no build knows.
Subjects ==
    {"interrupt", "alarm", "sys: child", "sys: tstp", "sys: write on closed pipe",
     "sys: emulate instruction executed", "sys: status request", "sys: abort", "bogus"}

\* The note names the program and its environment use in this run.
used == {subject, OtherNote}

\* The signal whose history dis, disq and det record (none when the
\* subject's name translates to no signal).
Watched == {p9strsig(subject)} \ {0}

----------------------------------------------------------------------------
(***************************************************************************)
(* The kernel's side of the signal interface.                              *)
(***************************************************************************)
\* sigfillset(&sa.sa_mask)
FullMask == AllSignals

DflAction == [sa_handler |-> "SIG_DFL", sa_flags |-> {}, sa_mask |-> {}]
IgnAction == [sa_handler |-> "SIG_IGN", sa_flags |-> {}, sa_mask |-> {}]
\* A handler some other component installed before the shim ran.
ForeignAction == [sa_handler |-> "foreign", sa_flags |-> {}, sa_mask |-> {}]

\* What SIG_DFL does with each signal: "term" (terminate, with or without a
\* core image), "ign" (discard) or "stop".
DefaultAction(s) ==
    IF s \in {SIGCHLD, SIGWINCH, SIGINFO} THEN "ign"
    ELSE IF s \in {SIGTSTP, SIGTTIN, SIGTTOU} THEN "stop"
    ELSE "term"

Running == [kind |-> "running", val |-> 0]
Exited(code) == [kind |-> "exited", val |-> code]
Signaled(s) == [kind |-> "signaled", val |-> s]
Stopped(s) == [kind |-> "stopped", val |-> s]

\* The status of the process once SIG_DFL has acted on s.
AfterDefault(s) ==
    CASE DefaultAction(s) = "term" -> Signaled(s)
      [] DefaultAction(s) = "stop" -> Stopped(s)
      [] OTHER -> Running

\* The part of the kernel state a call made by thread t reads and writes.
KernelState(t) == [mask |-> sigmask[t], action |-> action]

Commit(t, st) ==
    /\ sigmask' = [sigmask EXCEPT ![t] = st.mask]
    /\ action' = st.action

\* handler(s): the sa_handler sigaction reports for s.
handler(st, s) == st.action[s].sa_handler

----------------------------------------------------------------------------
(***************************************************************************)
(* notify.c, the configuration side.  Each function is an operator from    *)
(* the kernel state before the call to the kernel state after it.          *)
(***************************************************************************)
\* notesetenable with SIG_BLOCK and SIG_UNBLOCK exchanged.
notesetenable_swapped(st, sig, enabled) ==
    IF sig = 0
    THEN st
    ELSE [st EXCEPT !.mask = IF enabled # 0 THEN @ \cup {sig} ELSE @ \ {sig}]

\* notesetenable blocking with SIG_SETMASK instead of SIG_BLOCK: the mask
\* becomes the one signal.
notesetenable_setmask(st, sig, enabled) ==
    IF sig = 0
    THEN st
    ELSE [st EXCEPT !.mask = IF enabled # 0 THEN @ \ {sig} ELSE {sig}]

notesetenable(st, sig, enabled) ==
    IF sig = 0
    THEN st
    ELSE [st EXCEPT !.mask = IF enabled # 0 THEN @ \ {sig} ELSE @ \cup {sig}]

\* notifyseton installing signotify whatever `on` is.
notifyseton_alwayson(st, s, on) ==
    LET i == findsig(s) IN
    IF i = 0
    THEN st
    ELSE LET st1 == IF on # 0 THEN notesetenable(st, s, 1) ELSE st
             sa == [sa_handler |-> "signotify",
                    sa_flags |-> IF sigs[i].restart # 0 THEN {"SA_RESTART"} ELSE {},
                    sa_mask |-> FullMask]
         IN  [st1 EXCEPT !.action[sigs[i].sig] = sa]

\* notifyseton testing s against 0 instead of looking it up in sigs[].
notifyseton_nofind(st, s, on) ==
    LET i == findsig(s) IN
    IF s = 0
    THEN st
    ELSE LET st1 == IF on # 0 THEN notesetenable(st, s, 1) ELSE st
             sa == [sa_handler |-> IF on # 0 THEN "signotify" ELSE "signonotify",
                    sa_flags |-> IF i # 0 /\ sigs[i].restart # 0 THEN {"SA_RESTART"} ELSE {},
                    sa_mask |-> FullMask]
         IN  [st1 EXCEPT !.action[s] = sa]

\* notifyseton without the notesetenable call of its `on` branch.
notifyseton_nounblock(st, s, on) ==
    LET i == findsig(s) IN
    IF i = 0
    THEN st
    ELSE LET sa == [sa_handler |-> IF on # 0 THEN "signotify" ELSE "signonotify",
                    sa_flags |-> IF sigs[i].restart # 0 THEN {"SA_RESTART"} ELSE {},
                    sa_mask |-> FullMask]
         IN  [st EXCEPT !.action[sigs[i].sig] = sa]

\* notifyseton setting SA_RESTART on every slot.
notifyseton_restartall(st, s, on) ==
    LET i == findsig(s) IN
    IF i = 0
    THEN st
    ELSE LET st1 == IF on # 0 THEN notesetenable(st, s, 1) ELSE st
             sa == [sa_handler |-> IF on # 0 THEN "signotify" ELSE "signonotify",
                    sa_flags |-> {"SA_RESTART"},
                    sa_mask |-> FullMask]
         IN  [st1 EXCEPT !.action[sigs[i].sig] = sa]

\* notifyseton leaving a slot that is not SIG_DFL alone, as noteinit does.
notifyseton_polite(st, s, on) ==
    LET i == findsig(s) IN
    IF i = 0 \/ handler(st, s) \notin {"SIG_DFL", "signotify", "signonotify"}
    THEN st
    ELSE LET st1 == IF on # 0 THEN notesetenable(st, s, 1) ELSE st
             sa == [sa_handler |-> IF on # 0 THEN "signotify" ELSE "signonotify",
                    sa_flags |-> IF sigs[i].restart # 0 THEN {"SA_RESTART"} ELSE {},
                    sa_mask |-> FullMask]
         IN  [st1 EXCEPT !.action[sigs[i].sig] = sa]

\* notifyseton with sigemptyset where the source has sigfillset.
notifyseton_nofill(st, s, on) ==
    LET i == findsig(s) IN
    IF i = 0
    THEN st
    ELSE LET st1 == IF on # 0 THEN notesetenable(st, s, 1) ELSE st
             sa == [sa_handler |-> IF on # 0 THEN "signotify" ELSE "signonotify",
                    sa_flags |-> IF sigs[i].restart # 0 THEN {"SA_RESTART"} ELSE {},
                    sa_mask |-> {}]
         IN  [st1 EXCEPT !.action[sigs[i].sig] = sa]

notifyseton(st, s, on) ==
    LET i == findsig(s) IN
    IF i = 0
    THEN st
    ELSE LET st1 == IF on # 0 THEN notesetenable(st, s, 1) ELSE st
             sa == [sa_handler |-> IF on # 0 THEN "signotify" ELSE "signonotify",
                    sa_flags |-> IF sigs[i].restart # 0 THEN {"SA_RESTART"} ELSE {},
                    sa_mask |-> FullMask]
         IN  [st1 EXCEPT !.action[sigs[i].sig] = sa]

\* noteinit's loop body skipping only the ignored signals: it takes over
\* every slot that holds a handler.
noteinitrow_steal(st, i) ==
    IF handler(st, sigs[i].sig) = "SIG_IGN"
    THEN st
    ELSE notifyseton(notesetenable(st, sigs[i].sig, sigs[i].enabled),
                     sigs[i].sig, sigs[i].notified)

\* The body of noteinit's loop for row i.
noteinitrow(st, i) ==
    IF handler(st, sigs[i].sig) # "SIG_DFL"
    THEN st
    ELSE notifyseton(notesetenable(st, sigs[i].sig, sigs[i].enabled),
                     sigs[i].sig, sigs[i].notified)

RECURSIVE noteinitfrom(_, _)
noteinitfrom(st, i) ==
    IF i > Len(sigs) THEN st ELSE noteinitfrom(noteinitrow(st, i), i + 1)

noteinit(st) == noteinitfrom(st, 1)

\* The main flow of thread t is running: the process is alive and t is in
\* no signal handler.
MainFlow(t) ==
    /\ t \in threads
    /\ status.kind = "running"
    /\ stack[t] = << >>

\* notify storing the handler only on the call that initializes.
notify_firstonly(t, f) ==
    /\ MainFlow(t)
    /\ reg' = [cur |-> f, again |-> init # 0,
               kept |-> IF init = 0
                        THEN {n \in Watched : action[n].sa_handler = "foreign"}
                        ELSE reg.kept]
    /\ IF init = 0
       THEN /\ notifyf' = f
            /\ init' = 1
            /\ Commit(t, noteinit(KernelState(t)))
            /\ disq' = {}
       ELSE UNCHANGED <<notifyf, init, sigmask, action, disq>>
    /\ UNCHANGED <<cvars, notejmpbuf, jmp, pending, stack, status, fired, dis, det>>

notify(t, f) ==
    /\ MainFlow(t)
    /\ notifyf' = f
    /\ reg' = [cur |-> f, again |-> init # 0,
               kept |-> IF init = 0
                        THEN {n \in Watched : action[n].sa_handler = "foreign"}
                        ELSE reg.kept]
    /\ IF init = 0
       THEN /\ init' = 1
            /\ Commit(t, noteinit(KernelState(t)))
            /\ disq' = {}
       ELSE UNCHANGED <<init, sigmask, action, disq>>
    /\ UNCHANGED <<cvars, notejmpbuf, jmp, pending, stack, status, fired, dis, det>>

\* noteenable calling notifyseton where it should call notesetenable.
noteenable_viaattach(t, msg) ==
    /\ MainFlow(t)
    /\ Commit(t, notifyseton(KernelState(t), p9strsig(msg), 1))
    /\ dis' = dis \ {p9strsig(msg)}
    /\ disq' = disq \ {p9strsig(msg)}
    /\ UNCHANGED <<cvars, pvars, pending, stack, status, fired, det, reg>>

noteenable(t, msg) ==
    /\ MainFlow(t)
    /\ Commit(t, notesetenable(KernelState(t), p9strsig(msg), 1))
    /\ dis' = dis \ {p9strsig(msg)}
    /\ disq' = disq \ {p9strsig(msg)}
    /\ UNCHANGED <<cvars, pvars, pending, stack, status, fired, det, reg>>

notedisable(t, msg) ==
    /\ MainFlow(t)
    /\ Commit(t, notesetenable(KernelState(t), p9strsig(msg), 0))
    /\ dis' = dis \cup ({p9strsig(msg)} \cap Watched)
    /\ disq' = disq \cup ({p9strsig(msg)} \cap Watched)
    /\ UNCHANGED <<cvars, pvars, pending, stack, status, fired, det, reg>>

notifyon(t, msg) ==
    /\ MainFlow(t)
    /\ Commit(t, notifyseton(KernelState(t), p9strsig(msg), 1))
    /\ det' = det \ {p9strsig(msg)}
    /\ disq' = disq \ {p9strsig(msg)}
    /\ UNCHANGED <<cvars, pvars, pending, stack, status, fired, dis, reg>>

notifyoff(t, msg) ==
    /\ MainFlow(t)
    /\ Commit(t, notifyseton(KernelState(t), p9strsig(msg), 0))
    /\ det' = det \cup ({p9strsig(msg)} \cap Watched)
    /\ UNCHANGED <<cvars, pvars, pending, stack, status, fired, dis, disq, reg>>

----------------------------------------------------------------------------
(***************************************************************************)
(* notify.c, the delivery side.  A signotify frame is                      *)
(*   [sig, pc, oldmask, f, arg, val, v]                                    *)
(* with pc "entry" (the handler was entered, p9setjmp not yet called),     *)
(* "notifyf" (inside the user's handler f, called with arg), "dflt" (at    *)
(* case 1) and "cont" (at case 2).  oldmask is the mask the kernel         *)
(* restores when the handler returns, val the last value p9setjmp          *)
(* returned in the frame and v the argument of the noted call that made    *)
(* it return again ("" when there was none).                               *)
(***************************************************************************)
Frame(s, m) ==
    [sig |-> s, pc |-> "entry", oldmask |-> m, f |-> 0, arg |-> "", val |-> 0, v |-> ""]

Top(t) == Head(stack[t])

InFrame(t, pc) ==
    /\ t \in threads
    /\ status.kind = "running"
    /\ stack[t] # << >>
    /\ Top(t).pc = pc

SetTop(t, fr) == stack' = [stack EXCEPT ![t] = <<fr>> \o Tail(stack[t])]

JmpBufs == {"onejmp"} \cup Threads
NoSnap == [thr |-> "none", sig |-> 0]

\* (*_notejmpbuf)() called on thread t: getonejmp returns &onejmp, a thread
\* library's provider returns the calling thread's buffer.
getjmp(t) == IF notejmpbuf = "getonejmp" THEN "onejmp" ELSE t

\* The kernel generates s for the process.
Generate(s) ==
    /\ status.kind = "running"
    /\ s # 0
    /\ s \notin pending
    /\ pending' = pending \cup {s}
    /\ UNCHANGED <<cvars, pvars, gvars, sigmask, action, stack, status, fired>>

\* The kernel delivers the pending, unblocked signal s to thread t and acts
\* on its slot: the default action, nothing, a foreign handler (which runs
\* and returns), signonotify (which returns at once) or signotify (entered
\* with sa_mask and s itself blocked).
Deliver(t, s) ==
    /\ t \in threads
    /\ status.kind = "running"
    /\ s \in pending
    /\ s \notin sigmask[t]
    /\ pending' = pending \ {s}
    /\ LET h == action[s].sa_handler IN
       /\ status' = IF h = "SIG_DFL" THEN AfterDefault(s) ELSE status
       /\ fired' = IF h = "foreign" THEN fired \cup {s} ELSE fired
       /\ IF h = "signotify"
          THEN /\ stack' = [stack EXCEPT ![t] = <<Frame(s, sigmask[t])>> \o @]
               /\ sigmask' = [sigmask EXCEPT ![t] = @ \cup action[s].sa_mask \cup {s}]
          ELSE UNCHANGED <<stack, sigmask>>
    /\ UNCHANGED <<cvars, pvars, gvars, action>>

\* signotify resetting the slot before it calls the user's handler.
signotifyentry_resetfirst(t) ==
    /\ InFrame(t, "entry")
    /\ jmp' = [jmp EXCEPT ![getjmp(t)] = [thr |-> t, sig |-> Top(t).sig]]
    /\ action' = [action EXCEPT ![Top(t).sig] = DflAction]
    /\ IF notifyf # 0
       THEN SetTop(t, [Top(t) EXCEPT !.pc = "notifyf", !.f = notifyf,
                                     !.arg = p9sigstr(Top(t).sig)])
       ELSE SetTop(t, [Top(t) EXCEPT !.pc = "dflt"])
    /\ UNCHANGED <<cvars, notifyf, init, notejmpbuf, sigmask, pending, gvars, status, fired>>

\* signotify up to the call of the user's handler: fetch the buffer through
\* the slot, p9setjmp returns 0, call notifyf if it is set.
signotifyentry(t) ==
    /\ InFrame(t, "entry")
    /\ jmp' = [jmp EXCEPT ![getjmp(t)] = [thr |-> t, sig |-> Top(t).sig]]
    /\ IF notifyf # 0
       THEN SetTop(t, [Top(t) EXCEPT !.pc = "notifyf", !.f = notifyf,
                                     !.arg = p9sigstr(Top(t).sig)])
       ELSE SetTop(t, [Top(t) EXCEPT !.pc = "dflt"])
    /\ UNCHANGED <<cvars, notifyf, init, notejmpbuf, kvars, gvars, status, fired>>

\* noted with the two values exchanged.
notedval_swapped(v) == IF v = "NCONT" THEN 1 ELSE 2

\* The value noted hands to p9longjmp.
notedval(v) == IF v = "NCONT" THEN 2 ELSE 1

\* The case of signotify's switch that a return value of p9setjmp selects.
setjmpcase(val) == IF val = 2 THEN "cont" ELSE "dflt"

\* noted keeping the address of onejmp instead of asking the slot.
noted_cached(t, v) ==
    /\ InFrame(t, "notifyf")
    /\ LET snap == jmp["onejmp"] IN
       IF snap.thr = t
       THEN /\ SetTop(t, [Top(t) EXCEPT !.pc = setjmpcase(notedval(v)),
                                        !.val = notedval(v), !.v = v])
            /\ UNCHANGED status
       ELSE \* The buffer holds a frame of another thread, live or already
            \* returned: the jump is undefined.  Either the process dies of
            \* it, or the other thread's frame, if live, is what resumes.
            \/ /\ status' = Signaled(SIGSEGV)
               /\ UNCHANGED stack
            \/ /\ snap.thr \in threads
               /\ stack[snap.thr] # << >>
               /\ SetTop(snap.thr, [Top(snap.thr) EXCEPT !.pc = setjmpcase(notedval(v)),
                                                         !.val = notedval(v), !.v = v])
               /\ UNCHANGED status
    /\ UNCHANGED <<cvars, pvars, kvars, gvars, fired>>

\* The user's handler calls noted(v): p9longjmp to the snapshot in the
\* buffer the slot yields, which is signotify's frame.
noted(t, v) ==
    /\ InFrame(t, "notifyf")
    /\ LET snap == jmp[getjmp(t)] IN
       IF snap.thr = t
       THEN /\ SetTop(t, [Top(t) EXCEPT !.pc = setjmpcase(notedval(v)),
                                        !.val = notedval(v), !.v = v])
            /\ UNCHANGED status
       ELSE \* The buffer holds a frame of another thread, live or already
            \* returned: the jump is undefined.  Either the process dies of
            \* it, or the other thread's frame, if live, is what resumes.
            \/ /\ status' = Signaled(SIGSEGV)
               /\ UNCHANGED stack
            \/ /\ snap.thr \in threads
               /\ stack[snap.thr] # << >>
               /\ SetTop(snap.thr, [Top(snap.thr) EXCEPT !.pc = setjmpcase(notedval(v)),
                                                         !.val = notedval(v), !.v = v])
               /\ UNCHANGED status
    /\ UNCHANGED <<cvars, pvars, kvars, gvars, fired>>

\* A signotify whose case 0 ends in a break: the switch is left and the
\* handler returns.
handlerreturn_break(t) ==
    /\ InFrame(t, "notifyf")
    /\ SetTop(t, [Top(t) EXCEPT !.pc = "cont"])
    /\ UNCHANGED <<cvars, pvars, kvars, gvars, status, fired>>

\* The user's handler returns: signotify falls through to case 1.
handlerreturn(t) ==
    /\ InFrame(t, "notifyf")
    /\ SetTop(t, [Top(t) EXCEPT !.pc = "dflt"])
    /\ UNCHANGED <<cvars, pvars, kvars, gvars, status, fired>>

\* raise(s) by a thread whose kernel state is st, with process status ps
\* and pending set pend: a blocked signal stays pending and raise returns;
\* an unblocked one whose slot is SIG_DFL is acted on before raise returns.
raise(st, ps, pend, s) ==
    IF s \notin st.mask /\ st.action[s].sa_handler = "SIG_DFL"
    THEN [status |-> AfterDefault(s), pending |-> pend]
    ELSE [status |-> ps, pending |-> pend \cup {s}]

\* _exit(1), unless the process was terminated or stopped before the call.
exit1(ps) == IF ps.kind = "running" THEN Exited(1) ELSE ps

\* case 1: signal(sig, SIG_DFL); raise(sig); _exit(1).
signotifydefault(t) ==
    /\ InFrame(t, "dflt")
    /\ LET s == Top(t).sig
           st == [KernelState(t) EXCEPT !.action[s] = DflAction]
           r == raise(st, status, pending, s)
       IN  /\ action' = st.action
           /\ pending' = r.pending
           /\ status' = exit1(r.status)
    /\ UNCHANGED <<cvars, pvars, gvars, sigmask, stack, fired>>

\* case 2: return.  The kernel restores the mask of the interrupted flow.
signotifyreturn(t) ==
    /\ InFrame(t, "cont")
    /\ sigmask' = [sigmask EXCEPT ![t] = Top(t).oldmask]
    /\ stack' = [stack EXCEPT ![t] = Tail(@)]
    /\ UNCHANGED <<cvars, pvars, gvars, action, pending, status, fired>>

----------------------------------------------------------------------------
\* What a slot can hold before the program's first call.
InheritedActions == {DflAction, IgnAction, ForeignAction}

Init ==
    /\ subject \in Subjects
    /\ build \in Builds
    /\ build # {} => strsigOn[build][subject] \in OptionalSignals
    /\ threads = {"main"}
    /\ notejmpbuf = "getonejmp"
    /\ jmp = [b \in JmpBufs |-> NoSnap]
    /\ notifyf = 0
    /\ init = 0
    /\ \E b \in SUBSET Watched : sigmask = [t \in Threads |-> b]
    /\ \E a \in InheritedActions :
          action = [s \in AllSignals |-> IF s \in Watched THEN a ELSE DflAction]
    /\ pending = {}
    /\ stack = [t \in Threads |-> << >>]
    /\ status = Running
    /\ fired = {}
    /\ dis = {}
    /\ disq = {}
    /\ det = {}
    /\ reg = [cur |-> 0, again |-> FALSE, kept |-> {}]

Next ==
    \/ \E t \in threads, f \in Handlers : notify(t, f)
    \/ \E t \in threads, n \in used : noteenable(t, n)
    \/ \E t \in threads, n \in used : notedisable(t, n)
    \/ \E t \in threads, n \in used : notifyon(t, n)
    \/ \E t \in threads, n \in used : notifyoff(t, n)
    \/ \E n \in used : Generate(p9strsig(n))
    \/ \E t \in threads, s \in pending : Deliver(t, s)
    \/ \E t \in threads : signotifyentry(t)
    \/ \E t \in threads, v \in NoteVals : noted(t, v)
    \/ \E t \in threads : handlerreturn(t)
    \/ \E t \in threads : signotifydefault(t)
    \/ \E t \in threads : signotifyreturn(t)

Spec == Init /\ [][Next]_vars

----------------------------------------------------------------------------
(***************************************************************************)
(* The threaded host.  notify.c makes no thread and never assigns          *)
(* _notejmpbuf; a thread library does both.  It replaces the provider      *)
(* when it initializes, in the main flow of the only thread, and it makes  *)
(* threads, each starting with its creator's signal mask.                  *)
(***************************************************************************)
\* The thread library stores its per-thread provider in _notejmpbuf.
setprovider ==
    /\ threads = {"main"}
    /\ MainFlow("main")
    /\ notejmpbuf = "getonejmp"
    /\ notejmpbuf' = "perthread"
    /\ UNCHANGED <<cvars, jmp, notifyf, init, kvars, gvars, stack, status, fired>>

\* Thread t creates thread u.
spawn(t, u) ==
    /\ MainFlow(t)
    /\ u \notin threads
    /\ threads' = threads \cup {u}
    /\ sigmask' = [sigmask EXCEPT ![u] = sigmask[t]]
    /\ UNCHANGED <<build, subject, pvars, gvars, action, pending, stack, status, fired>>

\* The notes the runs of the threaded host are about.
SubjectsMT == {"alarm"}

\* The threaded runs start with every slot SIG_DFL and nothing blocked.
InitMT ==
    /\ Init
    /\ subject \in SubjectsMT
    /\ action = [s \in AllSignals |-> DflAction]
    /\ sigmask = [t \in Threads |-> {}]

\* The threaded runs register a handler, block and unblock notes, and take
\* deliveries on every thread; they leave the trampolines as noteinit
\* installed them.
NextMT ==
    \/ setprovider
    \/ \E t \in threads, u \in Threads : spawn(t, u)
    \/ \E t \in threads, f \in Handlers : notify(t, f)
    \/ \E t \in threads, n \in used : noteenable(t, n)
    \/ \E t \in threads, n \in used : notedisable(t, n)
    \/ \E n \in used : Generate(p9strsig(n))
    \/ \E t \in threads, s \in pending : Deliver(t, s)
    \/ \E t \in threads : signotifyentry(t)
    \/ \E t \in threads, v \in NoteVals : noted(t, v)
    \/ \E t \in threads : handlerreturn(t)
    \/ \E t \in threads : signotifydefault(t)
    \/ \E t \in threads : signotifyreturn(t)

SpecMT == InitMT /\ [][NextMT]_vars

----------------------------------------------------------------------------
(***************************************************************************)
(* Properties.                                                             *)
(***************************************************************************)
\* The step delivers s: delivery is the only step that takes a signal out
\* of the pending set.
Delivered(s) == s \in pending /\ s \notin pending'

\* The step is the first notify call, the one that runs noteinit.
FirstNotify == init = 0 /\ init' = 1

\* C1: when the first notify call completes, every row of sigs[] whose slot
\* was SIG_DFL when noteinit ran is blocked in the caller's signal mask if
\* and only if the row's enabled field is 0.
C1_InitMaskFollowsEnabled ==
    [][FirstNotify =>
        \E t \in threads : \A i \in 1..Len(sigs) :
            action[sigs[i].sig].sa_handler = "SIG_DFL" =>
                ((sigs[i].sig \in sigmask'[t]) <=> (sigs[i].enabled = 0))]_vars

\* C2: when the user's handler has called noted(NDFLT) during the delivery
\* of s, the default path ends the process, and for a signal whose default
\* action is to terminate, the process is terminated by s itself (the
\* platform reports s as the cause).
C2_ResumeDefaultTerminatesBySignal ==
    [][\A t \in threads :
        (InFrame(t, "dflt") /\ Top(t).v = "NDFLT" /\ status' # status) =>
            /\ status'.kind \in {"exited", "signaled"}
            /\ DefaultAction(Top(t).sig) = "term" => status' = Signaled(Top(t).sig)]_vars

\* The step makes thread t call the user's handler: signotify's frame on t
\* moves from its entry to "notifyf".
Entered(t) == InFrame(t, "entry") /\ stack'[t] # stack[t]

\* The step pushes a signotify frame on thread t.
Pushed(t) == Len(stack'[t]) = Len(stack[t]) + 1

C4_HandlerCalledFirstWithName ==
    [][/\ FirstNotify =>
            \A i \in 1..Len(sigs) :
                action[sigs[i].sig].sa_handler = "SIG_DFL" =>
                    action'[sigs[i].sig].sa_handler = "signotify"
       /\ \A s \in pending :
            (Delivered(s) /\ action[s].sa_handler = "signotify") =>
                /\ \E t \in threads :
                      /\ Pushed(t)
                      /\ Head(stack'[t]).sig = s
                      /\ Head(stack'[t]).pc = "entry"
                /\ UNCHANGED <<action, status, fired, notifyf>>
       /\ \A t \in threads :
            (Entered(t) /\ notifyf # 0) =>
                /\ Head(stack'[t]).pc = "notifyf"
                /\ Head(stack'[t]).f = notifyf
                /\ Head(stack'[t]).sig = Top(t).sig
                /\ Head(stack'[t]).arg = p9sigstr(Top(t).sig)
                /\ p9strsig(Head(stack'[t]).arg) = Top(t).sig
                /\ UNCHANGED <<action, pending, status, fired, sigmask>>]_vars

\* The user's handler is running for the subject's signal, after notify.
C4_Witness ==
    \E t \in threads :
        /\ stack[t] # << >>
        /\ Top(t).pc = "notifyf"
        /\ Top(t).sig \in Watched
        /\ Top(t).f # 0
        /\ init = 1

\* C5: noted(NCONT) from the user's handler takes the frame of the current
\* delivery to case 2 and changes nothing else; the return from there pops
\* the frame, restores the mask the thread had before the delivery and
\* leaves the process running with every slot as it was, the delivered
\* signal's slot still signotify and the signal unblocked, so that its next
\* delivery calls the handler again.
C5_ContinueResumes ==
    [][\A t \in threads :
        /\ Pushed(t) => Head(stack'[t]).oldmask = sigmask[t]
        /\ (InFrame(t, "notifyf") /\ stack'[t] # stack[t]
                                  /\ Head(stack'[t]).v = "NCONT") =>
              /\ Head(stack'[t]) = [Top(t) EXCEPT !.pc = "cont", !.val = 2, !.v = "NCONT"]
              /\ UNCHANGED <<action, sigmask, pending, status, notifyf>>
        /\ (InFrame(t, "cont") /\ stack'[t] # stack[t]) =>
              /\ stack'[t] = Tail(stack[t])
              /\ sigmask'[t] = Top(t).oldmask
              /\ Top(t).sig \notin sigmask'[t]
              /\ status' = Running
              /\ action' = action
              /\ action[Top(t).sig].sa_handler = "signotify"
              /\ notifyf' = notifyf /\ notifyf = Top(t).f]_vars

\* signotify is at case 2 after noted(NCONT).
C5_Witness ==
    \E t \in threads :
        /\ stack[t] # << >>
        /\ Top(t).pc = "cont"
        /\ Top(t).v = "NCONT"
        /\ Top(t).f # 0

\* C6: when signotify finds no handler registered, or the handler returns
\* without calling noted, the frame goes to case 1 and never to case 2;
\* case 2 is reached by noted(NCONT) alone; and case 1, however it was
\* reached, resets the slot to SIG_DFL, raises the signal again and ends the
\* process with a nonzero status.
C6_UnsetOrReturnTakesDefault ==
    [][\A t \in threads :
        /\ (Entered(t) /\ notifyf = 0) =>
              Head(stack'[t]) = [Top(t) EXCEPT !.pc = "dflt"]
        /\ (InFrame(t, "notifyf") /\ stack'[t] # stack[t]
                                  /\ Head(stack'[t]).v = "") =>
              Head(stack'[t]) = [Top(t) EXCEPT !.pc = "dflt"]
        /\ InFrame(t, "cont") => Top(t).v = "NCONT"
        /\ (InFrame(t, "dflt") /\ status' # status) =>
              /\ action' = [action EXCEPT ![Top(t).sig] = DflAction]
              /\ Top(t).sig \in pending' \/ status'.kind = "signaled"
              /\ status'.kind \in {"exited", "signaled"}
              /\ status'.val # 0
              /\ stack' = stack]_vars

\* notifyon before any notify: the signal was delivered with no handler
\* registered, and the default path has ended the process.
C6_Witness ==
    \E t \in threads :
        /\ stack[t] # << >>
        /\ Top(t).pc = "dflt"
        /\ Top(t).f = 0
        /\ init = 0
        /\ status.kind = "exited"

C8_InitKeepsOccupiedSlots ==
    [][/\ FirstNotify =>
            \A i \in 1..Len(sigs) :
                action[sigs[i].sig].sa_handler # "SIG_DFL" =>
                    /\ action'[sigs[i].sig] = action[sigs[i].sig]
                    /\ \A t \in threads :
                          (sigs[i].sig \in sigmask'[t]) <=> (sigs[i].sig \in sigmask[t])
       /\ \A s \in pending :
            (Delivered(s) /\ action[s].sa_handler = "foreign") =>
                /\ s \in fired'
                /\ UNCHANGED <<stack, status, action, sigmask>>]_vars

\* After initialization the foreign handler of a row of sigs[] is still
\* installed and has run.
C8_Witness ==
    \E s \in fired :
        /\ init = 1
        /\ findsig(s) # 0
        /\ action[s] = ForeignAction
        /\ notifyf # 0

\* C9: a notify call after the first one stores its argument in notifyf
\* and changes neither a signal mask nor a slot nor anything else; a
\* delivery calls the handler passed to the latest notify call.
C9_LaterNotifyOnlyReplacesHandler ==
    [][/\ (init = 1 /\ reg' # reg) =>
            /\ notifyf' = reg'.cur
            /\ UNCHANGED <<init, sigmask, action, pending, stack, status, jmp, notejmpbuf>>
       /\ \A t \in threads :
            Entered(t) =>
                /\ notifyf = reg.cur
                /\ notifyf # 0 => Head(stack'[t]).f = reg.cur]_vars

\* The handler passed to a second notify call is running, after notifyoff
\* and notedisable calls.
C9_Witness ==
    \E t \in threads :
        /\ reg.again
        /\ stack[t] # << >>
        /\ Top(t).pc = "notifyf"
        /\ Top(t).f = reg.cur
        /\ dis # {}

\* C10 as stated: for a name that has no row in sigs[], noteenable,
\* notedisable, notifyon and notifyoff all leave the signal mask and every
\* slot unchanged.
C10_NoRowAllNoOps ==
    [][\A msg \in used :
        LET s == p9strsig(msg) IN
        findsig(s) = 0 =>
            /\ \A t \in threads, on \in {0, 1} :
                  notifyseton(KernelState(t), s, on) = KernelState(t)
            /\ s = 0 =>
                  \A t \in threads, e \in {0, 1} :
                      notesetenable(KernelState(t), s, e) = KernelState(t)
            /\ s # 0 =>
                  /\ action'[s] = action[s]
                  /\ \A t \in threads :
                        (stack[t] = << >> /\ stack'[t] = << >>) =>
                            ((s \in sigmask'[t]) <=> (s \in sigmask[t]))]_vars

\* C10, amended: for a name the signal-name table does not know (it
\* translates to 0), all four calls leave the mask and every slot unchanged;
\* for a name that translates to a signal s without a row in sigs[], notifyon
\* and notifyoff do so too, no step ever changes the slot of s, and
\* noteenable and notedisable change exactly the mask bit of s (unblocked,
\* blocked) and no slot: the mask bit of s changes in the interrupted flow
\* only by a noteenable(s) or notedisable(s) call.
C10_NoRowNoOpsExceptMask ==
    [][\A msg \in used :
        LET s == p9strsig(msg) IN
        findsig(s) = 0 =>
            /\ \A t \in threads, on \in {0, 1} :
                  notifyseton(KernelState(t), s, on) = KernelState(t)
            /\ s = 0 =>
                  \A t \in threads, e \in {0, 1} :
                      notesetenable(KernelState(t), s, e) = KernelState(t)
            /\ s # 0 =>
                  /\ action'[s] = action[s]
                  /\ \A t \in threads, e \in {0, 1} :
                        LET r == notesetenable(KernelState(t), s, e) IN
                        /\ r.action = action
                        /\ r.mask \ {s} = sigmask[t] \ {s}
                        /\ (s \in r.mask) <=> (e = 0)
                  /\ \A t \in threads :
                        (s \in sigmask[t] /\ s \notin sigmask'[t]
                            /\ stack[t] = << >> /\ stack'[t] = << >>) => s \notin dis'
                  /\ \A t \in threads :
                        (s \notin sigmask[t] /\ s \in sigmask'[t]
                            /\ stack[t] = << >> /\ stack'[t] = << >>) => s \in dis']_vars

\* notedisable of a name whose signal has no row has blocked that signal.
C10_Witness ==
    \E s \in dis, t \in threads :
        /\ findsig(s) = 0
        /\ s \in sigmask[t]
        /\ stack[t] = << >>
        /\ action[s] = DflAction
        /\ init = 1

\* C11: a noted call with a value that is neither NCONT nor NDFLT aborts:
\* signotify's frame goes neither to case 2 (continue) nor to case 1 (the
\* default path).
C11_OtherValueAborts ==
    [][\A t \in threads :
        (InFrame(t, "notifyf") /\ stack'[t] # stack[t]
            /\ Head(stack'[t]).v \notin {"", "NCONT", "NDFLT"}) =>
                Head(stack'[t]).pc \notin {"cont", "dflt"}]_vars

\* The notes of this run that name a signal.
UsedSignals == {p9strsig(m) : m \in used} \ {0}

\* The step alters what the configuration calls set up for n: the slot of
\* n, or the mask bit of n in the interrupted flow of some thread.
Altered(n) ==
    \/ action'[n] # action[n]
    \/ \E t \in threads :
          /\ stack[t] = << >>
          /\ stack'[t] = << >>
          /\ (n \in sigmask'[t]) # (n \in sigmask[t])

\* The step changes nothing but the slot and the mask bit of n: it is one of
\* noteenable, notedisable, notifyon and notifyoff, called for n.
OnlyConfigOf(n) ==
    /\ UNCHANGED <<pvars, pending, stack, status, fired, reg>>
    /\ \A m \in AllSignals \ {n} : action'[m] = action[m]
    /\ \A t \in Threads : sigmask'[t] \ {n} = sigmask[t] \ {n}

\* A delivery keeps the mask bit of n: the frame records the mask of the
\* interrupted flow when it is pushed, keeps the record while it is on the
\* stack, and the return from case 2 restores it.
DeliveryKeepsMaskBit(n) ==
    \A t \in threads :
        /\ Pushed(t) => ((n \in Head(stack'[t]).oldmask) <=> (n \in sigmask[t]))
        /\ (stack[t] # << >> /\ Len(stack'[t]) = Len(stack[t])) =>
              Head(stack'[t]).oldmask = Top(t).oldmask
        /\ (InFrame(t, "cont") /\ stack'[t] # stack[t]) =>
              ((n \in sigmask'[t]) <=> (n \in Top(t).oldmask))

\* The step is the default path ending the process.
DefaultPathEnds == \E t \in threads : InFrame(t, "dflt") /\ status'.kind # "running"

\* C12 as stated: what noteenable, notedisable, notifyon and notifyoff set
\* up for a note n (its mask bit, its slot) is altered by nothing but
\* another of these calls for n: not by the first notify call, not by later
\* ones, not by a delivery that ends in noted(NCONT), not by calls for other
\* notes.  Stated for a note that a notedisable or notifyoff call has
\* configured and that no noteenable or notifyon call has configured since.
C12_OnlyConfigOfNoteAlters ==
    [][\A n \in UsedSignals \cap (dis \cup det) :
        /\ DeliveryKeepsMaskBit(n)
        /\ Altered(n) => (OnlyConfigOf(n) \/ DefaultPathEnds)]_vars

\* C12, amended: for every note n, configured before or not, the mask bit
\* and the slot of n are altered only by a
\* configuration call for n, by the default path that ends the process, and
\* by the first notify call when the slot of n is still SIG_DFL at that
\* call; the first notify call leaves a note whose slot is not SIG_DFL as
\* it is.
C12_OnlyConfigOrInitAlters ==
    [][\A n \in UsedSignals :
        /\ DeliveryKeepsMaskBit(n)
        /\ Altered(n) =>
              \/ OnlyConfigOf(n)
              \/ DefaultPathEnds
              \/ FirstNotify /\ action[n].sa_handler = "SIG_DFL"]_vars

\* The subject's note is disabled and detached, a second notify call has
\* been made, and the other note is attached and deliverable: the subject is
\* still blocked and its slot still holds the silent trampoline.
C12_Witness ==
    \E n \in dis \cap det, t \in threads :
        /\ reg.again
        /\ init = 1
        /\ stack[t] = << >>
        /\ n \in sigmask[t]
        /\ action[n].sa_handler = "signonotify"
        /\ p9strsig(OtherNote) # n
        /\ p9strsig(OtherNote) \notin sigmask[t]
        /\ action[p9strsig(OtherNote)].sa_handler = "signotify"

\* C13: noteenable(n) unblocks and notedisable(n) blocks exactly the signal
\* of n in the caller's mask; both leave every slot as it is (also the
\* slot of n, whatever trampoline and flags it holds) and every other
\* signal's mask bit; both change nothing when the name translates to 0.
C13_EnableDisableTouchOneMaskBit ==
    [][/\ \A msg \in used, t \in threads, e \in {0, 1} :
            LET s == p9strsig(msg)
                r == notesetenable(KernelState(t), s, e)
            IN  /\ r.action = action
                /\ s = 0 => r.mask = sigmask[t]
                /\ s # 0 => r.mask = IF e = 1 THEN sigmask[t] \ {s}
                                              ELSE sigmask[t] \cup {s}
       /\ \A n \in Watched :
            /\ (n \in dis /\ n \notin dis') =>
                  /\ \E t \in threads : sigmask' = [sigmask EXCEPT ![t] = @ \ {n}]
                  /\ UNCHANGED <<action, pvars, pending, stack, status, fired>>
            /\ (n \notin dis /\ n \in dis') =>
                  /\ \E t \in threads : sigmask' = [sigmask EXCEPT ![t] = @ \cup {n}]
                  /\ UNCHANGED <<action, pvars, pending, stack, status, fired>>]_vars

\* notedisable has blocked a note whose slot holds the dispatch trampoline,
\* and the other note is still unblocked.
C13_Witness ==
    \E n \in dis, t \in threads :
        /\ stack[t] = << >>
        /\ n \in sigmask[t]
        /\ action[n].sa_handler = "signotify"
        /\ p9strsig(OtherNote) # n
        /\ p9strsig(OtherNote) \notin sigmask[t]

\* C14: the defaults of sigs[]: the rows for child status change, the stop
\* request, window-size change and the informational signal have enabled 0,
\* notified 1 and restart 1; the broken-pipe row has enabled 0 and restart
\* 0; every other row, the two for terminal input and output of a
\* background process among them, has enabled 1, restart 0 and notified 1.
C14_TableDefaults ==
    \A i \in 1..Len(sigs) :
        IF sigs[i].sig \in {SIGCHLD, SIGTSTP, SIGWINCH, SIGINFO}
        THEN sigs[i].enabled = 0 /\ sigs[i].notified = 1 /\ sigs[i].restart = 1
        ELSE IF sigs[i].sig = SIGPIPE
        THEN sigs[i].enabled = 0 /\ sigs[i].restart = 0
        ELSE sigs[i].enabled = 1 /\ sigs[i].restart = 0 /\ sigs[i].notified = 1

\* No thread has a signotify frame nested in another, and a frame leaves the
\* stack only by the return from case 2, which noted(NCONT) alone reaches.
OneFramePerThread ==
    \A t \in threads :
        /\ Len(stack[t]) <= 1
        /\ Len(stack'[t]) <= 1
        /\ (stack[t] # << >> /\ stack'[t] = << >>) =>
              Top(t).pc = "cont" /\ Top(t).v = "NCONT"

\* C15 as stated: at most one signotify frame is active on a thread, and a
\* signal generated while signotify or the user's handler is running stays
\* pending until that signotify has returned by way of noted(NCONT).  Stated
\* for a signal of the kind being handled: the delivery took it out of the
\* pending set, so when it is pending again it was generated while the frame
\* was active, and it is not delivered before the frame is gone.
C15_HeldUntilTrampolineReturns ==
    [][/\ OneFramePerThread
       /\ \A t \in threads :
            (stack[t] # << >> /\ Top(t).sig \in pending) => ~Delivered(Top(t).sig)]_vars

\* C15, amended: at most one signotify frame is active on a thread; while
\* a frame is on a thread's stack that thread has every signal blocked, so
\* no delivery lands on it and its frame is never nested or disturbed by
\* one; the frame leaves the stack only by the return that noted(NCONT)
\* leads to.  A signal generated meanwhile stays pending as long as every
\* thread that has it unblocked is in a frame; another thread that does not
\* block it may take it.
C15_NoDeliveryToThreadInTrampoline ==
    [][/\ OneFramePerThread
       /\ \A t \in threads :
            stack[t] # << >> =>
                /\ FullMask \subseteq sigmask[t]
                /\ \A s \in pending :
                      Delivered(s) =>
                          /\ stack'[t] = stack[t]
                          /\ sigmask'[t] = sigmask[t]
                          /\ \E u \in threads \ {t} : stack[u] = << >> /\ s \notin sigmask[u]]_vars

\* The user's handler is running on one of two threads while a signal of
\* another kind and one of the same kind are pending.
C15_Witness ==
    \E t \in threads :
        /\ threads = Threads
        /\ stack[t] # << >>
        /\ Top(t).pc = "notifyf"
        /\ Top(t).sig \in pending
        /\ \E s \in pending : s # Top(t).sig

\* The process is single-threaded, or the thread library has replaced the
\* provider.
SafeProvider == threads = {"main"} \/ notejmpbuf = "perthread"

\* C16: while the process is single-threaded or the provider is the thread
\* library's, the buffer the slot yields to a thread whose handler is
\* running holds the frame of the very delivery that called the handler
\* (same thread, same signal), whatever deliveries the other thread takes;
\* so a noted call changes that frame and no other, to the case its
\* argument selects (case 2 with value 2 for NCONT, case 1 with value 1 for
\* NDFLT), and no jump goes astray.
C16_ResumeReachesOwnFrame ==
    [][SafeProvider =>
        /\ \A t \in threads :
              InFrame(t, "notifyf") =>
                  jmp[getjmp(t)] = [thr |-> t, sig |-> Top(t).sig]
        /\ \A t \in threads :
              (stack[t] # << >> /\ stack'[t] # << >> /\ Head(stack'[t]) # Top(t)) =>
                  /\ \A u \in threads \ {t} : stack'[u] = stack[u]
                  /\ Head(stack'[t]).v # "" =>
                        /\ Top(t).pc = "notifyf"
                        /\ Head(stack'[t]).v \in {"NCONT", "NDFLT"} =>
                              Head(stack'[t]) =
                                  [Top(t) EXCEPT
                                      !.pc = IF Head(stack'[t]).v = "NCONT"
                                             THEN "cont" ELSE "dflt",
                                      !.val = IF Head(stack'[t]).v = "NCONT" THEN 2 ELSE 1,
                                      !.v = Head(stack'[t]).v]
        /\ status' # Signaled(SIGSEGV)]_vars

\* With the thread library's provider, one thread's handler is running while
\* the other thread's noted(NCONT) has taken its own frame to case 2.
C16_Witness ==
    \E t \in threads, u \in threads :
        /\ t # u
        /\ notejmpbuf = "perthread"
        /\ stack[t] # << >> /\ stack[u] # << >>
        /\ Top(t).pc = "notifyf"
        /\ Top(u).pc = "cont"
        /\ Top(u).v = "NCONT"
        /\ jmp[t] = [thr |-> t, sig |-> Top(t).sig]
        /\ jmp[u] = [thr |-> u, sig |-> Top(u).sig]

\* C17: notifyon(n), for a note n with a row in sigs[], unblocks the signal
\* of n in the caller's mask and installs signotify in its slot, whatever
\* the mask bit and the slot were (blocked by notedisable, signonotify from
\* notifyoff, another component's handler); it changes no other signal's
\* mask bit and no other slot; and a delivery to a slot that holds signotify
\* enters signotify for that signal, which calls the registered handler.
C17_AttachUnblocksAndInstalls ==
    [][/\ \A msg \in used, t \in threads :
            LET s == p9strsig(msg)
                r == notifyseton(KernelState(t), s, 1)
            IN  findsig(s) # 0 =>
                    /\ r.mask = sigmask[t] \ {s}
                    /\ r.action[s].sa_handler = "signotify"
                    /\ \A m \in AllSignals \ {s} : r.action[m] = action[m]
       /\ \A n \in Watched :
            (findsig(n) # 0 /\ n \in det /\ n \notin det') =>
                /\ action' = [action EXCEPT ![n] = action'[n]]
                /\ action'[n].sa_handler = "signotify"
                /\ \E t \in threads : sigmask' = [sigmask EXCEPT ![t] = @ \ {n}]
                /\ UNCHANGED <<pvars, pending, stack, status, fired>>
       /\ \A s \in pending :
            (Delivered(s) /\ action[s].sa_handler = "signotify") =>
                \E t \in threads : Pushed(t) /\ Head(stack'[t]).sig = s
       /\ \A t \in threads :
            (Entered(t) /\ notifyf # 0) => Head(stack'[t]).pc = "notifyf"]_vars

\* The user's handler is running for a note that was disabled and never
\* enabled since, and whose slot another component's handler held: only
\* notifyon can have unblocked it and installed signotify.
C17_Witness ==
    \E n \in dis \cap fired, t \in threads :
        /\ findsig(n) # 0
        /\ stack[t] # << >>
        /\ Top(t).sig = n
        /\ Top(t).pc = "notifyf"
        /\ Top(t).f # 0

\* C18: in every reachable state, a slot that holds signotify or
\* signonotify belongs to a row of sigs[], has SA_RESTART set exactly when
\* that row's restart field is set, and asks for every signal to be
\* blocked while the handler runs.
C18_ShimSlotsFollowRestart ==
    \A s \in AllSignals :
        action[s].sa_handler \in {"signotify", "signonotify"} =>
            /\ findsig(s) # 0
            /\ ("SA_RESTART" \in action[s].sa_flags) <=> (sigs[findsig(s)].restart # 0)
            /\ action[s].sa_mask = FullMask

\* The subject's row restarts system calls and its slot holds the silent
\* trampoline that notifyoff installed, while the slot of the other note, a
\* row that does not restart them, holds the dispatch trampoline.
C18_Witness ==
    \E n \in det :
        /\ findsig(n) # 0
        /\ sigs[findsig(n)].restart # 0
        /\ action[n].sa_handler = "signonotify"
        /\ "SA_RESTART" \in action[n].sa_flags
        /\ action[p9strsig(OtherNote)].sa_handler = "signotify"
        /\ "SA_RESTART" \notin action[p9strsig(OtherNote)].sa_flags

\* A delivery whose slot holds another component's handler runs that
\* handler; a delivery whose slot holds anything else does not.
ForeignRunsOnlyFromItsSlot ==
    \A s \in pending :
        Delivered(s) => ((s \in fired' /\ s \notin fired) => action[s].sa_handler = "foreign")

\* C19: notifyon(n) and notifyoff(n), for a note n with a row in sigs[],
\* overwrite the slot whatever it holds: when another component's handler
\* held the slot of n and the first notify call has left it there, a later
\* notifyon(n) installs signotify and a later notifyoff(n) installs
\* signonotify; the other component's handler never comes back into a
\* slot, so from then on a delivery of n does not run it.
C19_AttachDetachOverwriteForeign ==
    [][/\ \A msg \in used, t \in threads, on \in {0, 1} :
            LET s == p9strsig(msg)
                r == notifyseton(KernelState(t), s, on)
            IN  findsig(s) # 0 =>
                    r.action[s].sa_handler = IF on = 1 THEN "signotify" ELSE "signonotify"
       /\ \A n \in Watched :
            (findsig(n) # 0 /\ action[n].sa_handler = "foreign") =>
                /\ FirstNotify => (action'[n] = action[n] /\ n \in reg'.kept)
                /\ (n \notin det /\ n \in det') => action'[n].sa_handler = "signonotify"
       /\ \A n \in AllSignals :
            action[n].sa_handler # "foreign" => action'[n].sa_handler # "foreign"
       /\ ForeignRunsOnlyFromItsSlot]_vars

\* The first notify call found another component's handler in the slot of
\* the subject's signal and left it there, that handler has run, and now
\* the user's handler is running for the signal: a notifyon call has
\* replaced the other component's handler.
C19_Witness ==
    \E n \in reg.kept \cap fired, t \in threads :
        /\ findsig(n) # 0
        /\ action[n].sa_handler = "signotify"
        /\ stack[t] # << >>
        /\ Top(t).sig = n
        /\ Top(t).pc = "notifyf"

====
